---- MODULE Spec2Model ----
(***************************************************************************)
(* FindMe-Profile: the GATT object tree (Application -> IASService ->      *)
(* AlertLevelCharacteristic) of FindMeServer.py and the notify state       *)
(* machine of the Alert Level characteristic.                              *)
(*                                                                         *)
(* Python strings are sequences of one-character strings, D-Bus object     *)
(* paths are strings built by concatenation as the f-strings build them,   *)
(* Python lists are sequences (position p of the code is p + 1 here) and   *)
(* Python dicts are sequences of [key, val] pairs in insertion order.      *)
(***************************************************************************)
EXTENDS Integers, Sequences, FiniteSets, TLC

VARIABLES
    services,     \* Application.services: the list of service objects
    registered,   \* object paths exported on the bus by dbus.service.Object.__init__
    emitted,      \* PropertiesChanged signals sent on the bus, in order
    response,     \* the value the last method call returned
    writes,       \* history: one entry per WriteValue call, in order
    lastCall,     \* history: the last method called, and whether it repeats the one before
    constructed,  \* history: the index argument every object was constructed with
    lastNotify,   \* history: the last StartNotify / StopNotify call on each characteristic
    inflight,     \* the WriteValue call in progress under statement-level interleaving
    main          \* FindMeMain.main: its position, its locals, the daemon's replies

vars == <<services, registered, emitted, response, writes, lastCall, constructed,
          lastNotify, inflight, main>>

----------------------------------------------------------------------------
(* Bounds of the model *)

MaxWrites == 3        \* WriteValue calls in one behaviour
MaxPayloadLen == 2    \* bytes in a payload of the mapping specification
MaxObjects == 5       \* services and characteristics exported on the bus
MaxIndex == 2         \* largest index argument given to a constructor
MaxBluezObjects == 2  \* objects the daemon manages when main starts

----------------------------------------------------------------------------
(* constants.py is imported by FindMeServer.py; the values are opaque names *)

IAS_UUID == "IAS_UUID"
ALERT_LEVEL_UUID == "ALERT_LEVEL_UUID"
GATT_SERVICE_IFACE == "GATT_SERVICE_IFACE"
GATT_CHARACTERISTIC_IFACE == "GATT_CHARACTERISTIC_IFACE"

ADAPTER_IFACE == "ADAPTER_IFACE"

ApplicationPATH == "/org/bluez/example/app"
AdvertisementPATH == "/org/bluez/example/advertisement0"

----------------------------------------------------------------------------
(* Python values *)

Bytes == 0 .. 255

\* the four message literals of WriteValue, one character per element
NoAlert == <<"N", "o", " ", "A", "l", "e", "r", "t">>
MildAlert == <<"M", "i", "l", "d", " ", "A", "l", "e", "r", "t">>
HighAlert == <<"H", "i", "g", "h", " ", "A", "l", "e", "r", "t">>
UnknownAlert == <<"U", "n", "k", "n", "o", "w", "n", " ", "A", "l", "e", "r", "t">>

\* ord(c) for the characters of the message literals
ord(c) ==
    CASE c = " " -> 32
      [] c = "A" -> 65
      [] c = "H" -> 72
      [] c = "M" -> 77
      [] c = "N" -> 78
      [] c = "U" -> 85
      [] c = "d" -> 100
      [] c = "e" -> 101
      [] c = "g" -> 103
      [] c = "h" -> 104
      [] c = "i" -> 105
      [] c = "k" -> 107
      [] c = "l" -> 108
      [] c = "n" -> 110
      [] c = "o" -> 111
      [] c = "r" -> 114
      [] c = "t" -> 116
      [] c = "w" -> 119

\* dbus.Byte(n) raises unless n fits one byte
ByteRaises(n) == n \notin Bytes

\* the return value of a method without a return statement or out_signature
None == <<>>

\* WriteValue without the empty-value check
NotValue_Never(value) == FALSE

\* `not value` of a byte array: true exactly for the empty array
NotValue(value) == Len(value) = 0

\* value[0] raises IndexError on an empty array
IndexRaises(value) == Len(value) < 1

\* dict[key] = val: replaces the value of a present key in place, else appends
RECURSIVE DictSet(_, _, _)
DictSet(d, key, val) ==
    IF d = <<>> THEN <<[key |-> key, val |-> val]>>
    ELSE IF Head(d).key = key THEN <<[key |-> key, val |-> val]>> \o Tail(d)
    ELSE <<Head(d)>> \o DictSet(Tail(d), key, val)

----------------------------------------------------------------------------
(* Construction of the object tree *)

\* IASService.__init__: self.path
ServicePath(index) == "/org/bluez/example/service" \o ToString(index)

\* AlertLevelCharacteristic.__init__: self.path
CharPath(servicePath, index) == servicePath \o "/char" \o ToString(index)

\* AlertLevelCharacteristic.__init__(bus, index, service)
AlertLevelCharacteristic(index, servicePath) ==
    [path |-> CharPath(servicePath, index),
     service |-> servicePath,
     uuid |-> ALERT_LEVEL_UUID,
     flags |-> <<"write-without-response", "notify">>,
     notifying |-> FALSE]

\* IASService.add_characteristic(char) on a service object
AppendCharacteristic(service, char) ==
    [service EXCEPT !.characteristics = Append(@, char)]

\* IASService.__init__ that numbers its characteristic from 1
IASService_CharOne(index) ==
    AppendCharacteristic(
        [path |-> ServicePath(index),
         uuid |-> IAS_UUID,
         primary |-> TRUE,
         characteristics |-> <<>>],
        AlertLevelCharacteristic(1, ServicePath(index)))

\* IASService.__init__(bus, index): the service with its alert_level_char added
IASService(index) ==
    AppendCharacteristic(
        [path |-> ServicePath(index),
         uuid |-> IAS_UUID,
         primary |-> TRUE,
         characteristics |-> <<>>],
        AlertLevelCharacteristic(0, ServicePath(index)))

\* the positions (s, c) of the characteristics of the tree
CharPositions ==
    {sc \in (1 .. Len(services)) \X (1 .. MaxObjects) :
        sc[2] <= Len(services[sc[1]].characteristics)}

CharAt(sc) == services[sc[1]].characteristics[sc[2]]

\* the history of StartNotify / StopNotify calls after one more call
NotifyCall(op, path) ==
    {c \in lastNotify : c.path # path} \cup {[path |-> path, op |-> op]}

\* the history entry of a method call
Call(op, path) ==
    [op |-> op, path |-> path,
     again |-> (lastCall.op = op /\ lastCall.path = path)]

----------------------------------------------------------------------------
(* AlertLevelCharacteristic *)

\* WriteValue: the if / elif chain over level
AlertMessage(level) ==
    IF level = 0 THEN NoAlert
    ELSE IF level = 1 THEN MildAlert
    ELSE IF level = 2 THEN HighAlert
    ELSE UnknownAlert

\* level taken from the last byte of the payload
Level_LastByte(value) == value[Len(value)]

\* WriteValue: level = int(value[0])
Level(value) == value[1]

\* an encoding of two bytes per character
EncodeMessage_Utf16(message) ==
    [i \in 1 .. 2 * Len(message) |->
        IF i % 2 = 1 THEN ord(message[(i + 1) \div 2]) ELSE 0]

\* send_notification: value = [dbus.Byte(ord(c)) for c in message]
EncodeMessage(message) == [i \in 1 .. Len(message) |-> ord(message[i])]

\* the PropertiesChanged signal send_notification emits on the characteristic
PropertiesChanged(char, interface, changed, invalidated) ==
    [path |-> char.path,
     signal |-> "PropertiesChanged",
     interface |-> interface,
     changed |-> changed,
     invalidated |-> invalidated]

\* send_notification without the `if not self.notifying` return
send_notification_Ungated(char, message) ==
    IF \E i \in 1 .. Len(message) : ByteRaises(ord(message[i]))
    THEN [raised |-> TRUE, events |-> <<>>]
    ELSE [raised |-> FALSE,
          events |-> <<PropertiesChanged(char, GATT_CHARACTERISTIC_IFACE,
                          DictSet(<<>>, "Value", EncodeMessage(message)), <<>>)>>]

\* send_notification that skips a message equal to the one last emitted
send_notification_OnChange(char, message) ==
    IF ~char.notifying
    THEN [raised |-> FALSE, events |-> <<>>]
    ELSE IF /\ emitted # <<>>
            /\ emitted[Len(emitted)].changed =
                   DictSet(<<>>, "Value", EncodeMessage(message))
    THEN [raised |-> FALSE, events |-> <<>>]
    ELSE [raised |-> FALSE,
          events |-> <<PropertiesChanged(char, GATT_CHARACTERISTIC_IFACE,
                          DictSet(<<>>, "Value", EncodeMessage(message)), <<>>)>>]

\* send_notification(message): whether it raised, and the signals it emitted
send_notification(char, message) ==
    IF ~char.notifying
    THEN [raised |-> FALSE, events |-> <<>>]
    ELSE IF \E i \in 1 .. Len(message) : ByteRaises(ord(message[i]))
    THEN [raised |-> TRUE, events |-> <<>>]
    ELSE [raised |-> FALSE,
          events |-> <<PropertiesChanged(char, GATT_CHARACTERISTIC_IFACE,
                          DictSet(<<>>, "Value", EncodeMessage(message)), <<>>)>>]

\* WriteValue that reads an empty payload as level 0
WriteValueOutcome_EmptyAsZero(char, value) ==
    LET msg == AlertMessage(IF NotValue(value) THEN 0 ELSE Level(value))
        sent == send_notification(char, msg)
    IN [mapped |-> TRUE, msg |-> msg, attempted |-> TRUE,
        raised |-> sent.raised, events |-> sent.events]

\* WriteValue(value, options) run to completion on one characteristic:
\* whether a message was mapped, whether send_notification was called,
\* whether the call raised, and the signals emitted
WriteValueOutcome(char, value) ==
    IF NotValue(value)
    THEN [mapped |-> FALSE, msg |-> <<>>, attempted |-> FALSE,
          raised |-> FALSE, events |-> <<>>]
    ELSE IF IndexRaises(value)
    THEN [mapped |-> FALSE, msg |-> <<>>, attempted |-> FALSE,
          raised |-> TRUE, events |-> <<>>]
    ELSE LET msg == AlertMessage(Level(value))
             sent == send_notification(char, msg)
         IN [mapped |-> TRUE, msg |-> msg, attempted |-> TRUE,
             raised |-> sent.raised, events |-> sent.events]

\* WriteValue that ends the subscription once a signal was sent
WriteValue_OneShot(sc, value) ==
    /\ sc \in CharPositions
    /\ LET char == CharAt(sc)
           out == WriteValueOutcome(char, value)
       IN /\ emitted' = emitted \o out.events
          /\ services' = [services EXCEPT
                 ![sc[1]].characteristics[sc[2]].notifying =
                     IF out.events # <<>> THEN FALSE ELSE @]
          /\ writes' = Append(writes,
                 [path |-> char.path, value |-> value,
                  notifying |-> char.notifying,
                  mapped |-> out.mapped, msg |-> out.msg,
                  attempted |-> out.attempted, raised |-> out.raised])
          /\ lastCall' = Call("WriteValue", char.path)
    /\ response' = None
    /\ UNCHANGED <<lastNotify, inflight, main, registered, constructed>>

WriteValue(sc, value) ==
    /\ sc \in CharPositions
    /\ LET char == CharAt(sc)
           out == WriteValueOutcome(char, value)
       IN /\ emitted' = emitted \o out.events
          /\ writes' = Append(writes,
                 [path |-> char.path, value |-> value,
                  notifying |-> char.notifying,
                  mapped |-> out.mapped, msg |-> out.msg,
                  attempted |-> out.attempted, raised |-> out.raised])
          /\ lastCall' = Call("WriteValue", char.path)
    /\ response' = None
    /\ UNCHANGED <<lastNotify, inflight, main, services, registered, constructed>>

\* StartNotify that flips the flag
StartNotifyFlag_Toggle(notifying) == ~notifying

\* StartNotify: self.notifying = True
StartNotifyFlag(notifying) == TRUE

\* StopNotify that leaves the flag as it is
StopNotifyFlag_Keep(notifying) == notifying

\* StopNotify: self.notifying = False
StopNotifyFlag(notifying) == FALSE

\* StartNotify that replays the last write if it was dropped
StartNotify_Replay(sc) ==
    /\ sc \in CharPositions
    /\ services' = [services EXCEPT
           ![sc[1]].characteristics[sc[2]].notifying = TRUE]
    /\ emitted' =
           IF /\ writes # <<>>
              /\ writes[Len(writes)].mapped
              /\ ~writes[Len(writes)].notifying
           THEN Append(emitted,
                    PropertiesChanged(CharAt(sc), GATT_CHARACTERISTIC_IFACE,
                        DictSet(<<>>, "Value",
                            EncodeMessage(writes[Len(writes)].msg)), <<>>))
           ELSE emitted
    /\ lastCall' = Call("StartNotify", CharAt(sc).path)
    /\ response' = None
    /\ lastNotify' = NotifyCall("StartNotify", CharAt(sc).path)
    /\ UNCHANGED <<inflight, main, registered, writes, constructed>>

StartNotify(sc) ==
    /\ sc \in CharPositions
    /\ services' = [services EXCEPT
           ![sc[1]].characteristics[sc[2]].notifying = StartNotifyFlag(@)]
    /\ lastCall' = Call("StartNotify", CharAt(sc).path)
    /\ response' = None
    /\ lastNotify' = NotifyCall("StartNotify", CharAt(sc).path)
    /\ UNCHANGED <<inflight, main, registered, emitted, writes, constructed>>

StopNotify(sc) ==
    /\ sc \in CharPositions
    /\ services' = [services EXCEPT
           ![sc[1]].characteristics[sc[2]].notifying = StopNotifyFlag(@)]
    /\ lastCall' = Call("StopNotify", CharAt(sc).path)
    /\ response' = None
    /\ lastNotify' = NotifyCall("StopNotify", CharAt(sc).path)
    /\ UNCHANGED <<inflight, main, registered, emitted, writes, constructed>>

\* get_properties that reports the flag as it was at construction
CharProperties_AtConstruction(char) ==
    DictSet(<<>>, GATT_CHARACTERISTIC_IFACE,
        [UUID |-> char.uuid,
         Service |-> char.service,
         Flags |-> char.flags,
         Notifying |-> FALSE])

\* AlertLevelCharacteristic.get_properties
CharProperties(char) ==
    DictSet(<<>>, GATT_CHARACTERISTIC_IFACE,
        [UUID |-> char.uuid,
         Service |-> char.service,
         Flags |-> char.flags,
         Notifying |-> char.notifying])

----------------------------------------------------------------------------
(* IASService and Application *)

\* IASService.get_properties
ServiceProperties(service) ==
    DictSet(<<>>, GATT_SERVICE_IFACE,
        [UUID |-> service.uuid,
         Primary |-> service.primary,
         Characteristics |->
             [j \in 1 .. Len(service.characteristics) |->
                 service.characteristics[j].path]])

\* GetManagedObjects without the inner loop
ManagedCharacteristics_Skip(resp, chars) == resp

\* GetManagedObjects: the inner loop over service.get_characteristics()
RECURSIVE ManagedCharacteristics(_, _)
ManagedCharacteristics(resp, chars) ==
    IF chars = <<>> THEN resp
    ELSE ManagedCharacteristics(
             DictSet(resp, Head(chars).path, CharProperties(Head(chars))),
             Tail(chars))

\* GetManagedObjects that lists every service before any characteristic
RECURSIVE ManagedServicesOnly(_, _)
ManagedServicesOnly(resp, svcs) ==
    IF svcs = <<>> THEN resp
    ELSE ManagedServicesOnly(
             DictSet(resp, Head(svcs).path, ServiceProperties(Head(svcs))),
             Tail(svcs))

RECURSIVE ManagedCharacteristicsOnly(_, _)
ManagedCharacteristicsOnly(resp, svcs) ==
    IF svcs = <<>> THEN resp
    ELSE ManagedCharacteristicsOnly(
             ManagedCharacteristics(resp, Head(svcs).characteristics),
             Tail(svcs))

ManagedObjects_ServicesFirst(resp, svcs) ==
    ManagedCharacteristicsOnly(ManagedServicesOnly(resp, svcs), svcs)

\* GetManagedObjects: the outer loop over self.services
RECURSIVE ManagedObjects(_, _)
ManagedObjects(resp, svcs) ==
    IF svcs = <<>> THEN resp
    ELSE ManagedObjects(
             ManagedCharacteristics(
                 DictSet(resp, Head(svcs).path, ServiceProperties(Head(svcs))),
                 Head(svcs).characteristics),
             Tail(svcs))

GetManagedObjects ==
    /\ response' = ManagedObjects(<<>>, services)
    /\ lastCall' = Call("GetManagedObjects", ApplicationPATH)
    /\ UNCHANGED <<lastNotify, inflight, main, services, registered, emitted,
                   writes, constructed>>

\* app.add_service(IASService(bus, index)): dbus.service.Object.__init__
\* exports the service and its characteristic on the bus, then
\* Application.add_service appends the service
add_service(index) ==
    /\ ServicePath(index) \notin registered
    /\ CharPath(ServicePath(index), 0) \notin registered
    /\ services' = Append(services, IASService(index))
    /\ registered' = registered \cup
           {ServicePath(index), CharPath(ServicePath(index), 0)}
    /\ constructed' = constructed \cup
           {[path |-> ServicePath(index), index |-> index],
            [path |-> CharPath(ServicePath(index), 0), index |-> 0]}
    /\ lastCall' = Call("add_service", ServicePath(index))
    /\ response' = None
    /\ UNCHANGED <<lastNotify, inflight, main, emitted, writes>>

\* IASService(bus, index) with a path that is already exported: the bus
\* refuses the second export, the constructor raises, nothing is added
IASServiceRaises(index) ==
    /\ ServicePath(index) \in registered
    /\ lastCall' = Call("IASServiceRaises", ServicePath(index))
    /\ response' = None
    /\ UNCHANGED <<lastNotify, inflight, main, services, registered, emitted,
                   writes, constructed>>

\* service.add_characteristic(AlertLevelCharacteristic(bus, index, service))
\* on the service at position s
add_characteristic(s, index) ==
    /\ s \in 1 .. Len(services)
    /\ LET char == AlertLevelCharacteristic(index, services[s].path)
       IN /\ char.path \notin registered
          /\ services' = [services EXCEPT ![s] = AppendCharacteristic(@, char)]
          /\ registered' = registered \cup {char.path}
          /\ constructed' = constructed \cup
                 {[path |-> char.path, index |-> index]}
          /\ lastCall' = Call("add_characteristic", char.path)
    /\ response' = None
    /\ UNCHANGED <<lastNotify, inflight, main, emitted, writes>>

\* AlertLevelCharacteristic(bus, index, service) with a path already exported
AlertLevelCharacteristicRaises(s, index) ==
    /\ s \in 1 .. Len(services)
    /\ CharPath(services[s].path, index) \in registered
    /\ lastCall' = Call("AlertLevelCharacteristicRaises",
                        CharPath(services[s].path, index))
    /\ response' = None
    /\ UNCHANGED <<lastNotify, inflight, main, services, registered, emitted,
                   writes, constructed>>

----------------------------------------------------------------------------
(* Specifications *)

Indices == 0 .. MaxIndex

\* payloads of the handler specification
Payloads == {<<>>, <<0>>, <<1>>, <<2>>, <<3>>, <<1, 2>>}

\* bytes after the first one in the payloads of the mapping specification
TailBytes == {0, 1, 255}

RECURSIVE Tails(_)
Tails(n) ==
    IF n = 0 THEN {<<>>}
    ELSE Tails(n - 1) \cup
         {Append(t, b) : t \in {u \in Tails(n - 1) : Len(u) = n - 1}, b \in TailBytes}

\* every payload of at most MaxPayloadLen bytes: any first byte, then tail bytes
AllPayloads ==
    {<<>>} \cup {<<b>> \o t : b \in Bytes, t \in Tails(MaxPayloadLen - 1)}

NoCall == [op |-> "none", path |-> "", again |-> FALSE]

\* no WriteValue call in progress
NoWrite == [pc |-> "idle", pos |-> <<>>, value |-> <<>>, msg |-> <<>>,
            mapped |-> FALSE, reads |-> 0, snapshot |-> FALSE,
            emits |-> 0, atEmit |-> FALSE]

\* main is not part of the behaviour; an optional path is None or <<path>>
NotStarted ==
    [pc |-> "none", objects |-> <<>>, adapter_path |-> None, powered |-> None,
     app |-> "none", ad |-> "none", appCalls |-> 0, adCalls |-> 0,
     loop |-> FALSE, printed |-> <<>>]

\* Application(bus) constructed, nothing added
InitTree ==
    /\ services = <<>>
    /\ registered = {ApplicationPATH}
    /\ emitted = <<>>
    /\ response = None
    /\ writes = <<>>
    /\ lastCall = NoCall
    /\ constructed = {}
    /\ lastNotify = {}
    /\ inflight = NoWrite
    /\ main = NotStarted

\* main: app = Application(bus); ias_service = IASService(bus, 0);
\* app.add_service(ias_service)
Init ==
    /\ services = <<IASService(0)>>
    /\ registered = {ApplicationPATH, ServicePath(0), CharPath(ServicePath(0), 0)}
    /\ emitted = <<>>
    /\ response = None
    /\ writes = <<>>
    /\ lastCall = NoCall
    /\ constructed = {[path |-> ServicePath(0), index |-> 0],
                      [path |-> CharPath(ServicePath(0), 0), index |-> 0]}
    /\ lastNotify = {}
    /\ inflight = NoWrite
    /\ main = NotStarted

\* the handlers, dispatched one at a time by the main loop
Next ==
    \/ \E sc \in CharPositions, value \in Payloads :
           Len(writes) < MaxWrites /\ WriteValue(sc, value)
    \/ \E sc \in CharPositions : StartNotify(sc)
    \/ \E sc \in CharPositions : StopNotify(sc)
    \/ GetManagedObjects

Spec == Init /\ [][Next]_vars

\* one WriteValue with any payload, in either notify state
NextMap ==
    \/ \E sc \in CharPositions, value \in AllPayloads :
           writes = <<>> /\ WriteValue(sc, value)
    \/ \E sc \in CharPositions : StartNotify(sc)
    \/ \E sc \in CharPositions : StopNotify(sc)

SpecMap == Init /\ [][NextMap]_vars

\* the number of services and characteristics exported on the bus
Exported == Cardinality(registered \ {ApplicationPATH})

\* composition of the tree by any add_service / add_characteristic calls
NextTree ==
    \/ \E index \in Indices :
           Exported + 2 <= MaxObjects /\ add_service(index)
    \/ \E index \in Indices : IASServiceRaises(index)
    \/ \E s \in 1 .. Len(services), index \in Indices :
           Exported + 1 <= MaxObjects /\ add_characteristic(s, index)
    \/ \E s \in 1 .. Len(services), index \in Indices :
           AlertLevelCharacteristicRaises(s, index)
    \/ \E sc \in CharPositions : StartNotify(sc)
    \/ \E sc \in CharPositions : StopNotify(sc)
    \/ GetManagedObjects

SpecTree == InitTree /\ [][NextTree]_vars

----------------------------------------------------------------------------
(* WriteValue statement by statement, interleaved with StartNotify and
   StopNotify as under a multi-threaded dispatch.  inflight holds the locals
   of the call in progress and, as history, how often it read self.notifying
   (reads), what it read (snapshot), how many signals it emitted (emits) and
   the flag at the moment it emitted (atEmit). *)

\* the history entry of the WriteValue call in progress
WriteEntry(call, attempted) ==
    [path |-> CharAt(call.pos).path, value |-> call.value,
     notifying |-> CharAt(call.pos).notifying,
     mapped |-> call.mapped, msg |-> call.msg,
     attempted |-> attempted, raised |-> FALSE]

\* def WriteValue(self, value, options): the call begins
WriteEnter(sc, value) ==
    /\ inflight.pc \in {"idle", "done"}
    /\ sc \in CharPositions
    /\ inflight' = [NoWrite EXCEPT !.pc = "check", !.pos = sc, !.value = value]
    /\ lastCall' = Call("WriteValue", CharAt(sc).path)
    /\ response' = None
    /\ UNCHANGED <<services, registered, emitted, writes, constructed,
                   lastNotify, main>>

\* if not value: print(...); return
WriteCheckEmpty ==
    /\ inflight.pc = "check"
    /\ IF NotValue(inflight.value)
       THEN /\ inflight' = [inflight EXCEPT !.pc = "done"]
            /\ writes' = Append(writes, WriteEntry(inflight, FALSE))
       ELSE /\ inflight' = [inflight EXCEPT !.pc = "map"]
            /\ writes' = writes
    /\ UNCHANGED <<services, registered, emitted, response, lastCall,
                   constructed, lastNotify, main>>

\* level = int(value[0]); msg = ...; print(...)
WriteMapLevel ==
    /\ inflight.pc = "map"
    /\ ~IndexRaises(inflight.value)
    /\ inflight' = [inflight EXCEPT !.pc = "send",
                                    !.msg = AlertMessage(Level(inflight.value)),
                                    !.mapped = TRUE]
    /\ UNCHANGED <<services, registered, emitted, response, writes, lastCall,
                   constructed, lastNotify, main>>

\* self.send_notification(msg): if not self.notifying: print(...); return
WriteReadNotifying ==
    /\ inflight.pc = "send"
    /\ LET flag == CharAt(inflight.pos).notifying
       IN IF ~flag
          THEN /\ inflight' = [inflight EXCEPT !.pc = "done",
                                               !.reads = @ + 1,
                                               !.snapshot = flag]
               /\ writes' = Append(writes, WriteEntry(inflight, TRUE))
          ELSE /\ inflight' = [inflight EXCEPT !.pc = "emit",
                                               !.reads = @ + 1,
                                               !.snapshot = flag]
               /\ writes' = writes
    /\ UNCHANGED <<services, registered, emitted, response, lastCall,
                   constructed, lastNotify, main>>

\* send_notification that looks at self.notifying again before emitting
WriteEmit_Recheck ==
    /\ inflight.pc = "emit"
    /\ LET char == CharAt(inflight.pos)
       IN /\ emitted' =
                 IF char.notifying
                 THEN Append(emitted,
                          PropertiesChanged(char, GATT_CHARACTERISTIC_IFACE,
                              DictSet(<<>>, "Value", EncodeMessage(inflight.msg)),
                              <<>>))
                 ELSE emitted
          /\ inflight' = [inflight EXCEPT
                 !.pc = "done",
                 !.reads = @ + 1,
                 !.emits = IF char.notifying THEN @ + 1 ELSE @,
                 !.atEmit = char.notifying]
          /\ writes' = Append(writes,
                 [WriteEntry(inflight, TRUE) EXCEPT !.notifying = inflight.snapshot])
    /\ UNCHANGED <<services, registered, response, lastCall, constructed,
                   lastNotify, main>>

\* value = [dbus.Byte(ord(c)) for c in message]; self.PropertiesChanged(...)
WriteEmit ==
    /\ inflight.pc = "emit"
    /\ LET char == CharAt(inflight.pos)
       IN /\ emitted' = Append(emitted,
                 PropertiesChanged(char, GATT_CHARACTERISTIC_IFACE,
                     DictSet(<<>>, "Value", EncodeMessage(inflight.msg)), <<>>))
          /\ inflight' = [inflight EXCEPT !.pc = "done",
                                          !.emits = @ + 1,
                                          !.atEmit = char.notifying]
          /\ writes' = Append(writes,
                 [WriteEntry(inflight, TRUE) EXCEPT !.notifying = inflight.snapshot])
    /\ UNCHANGED <<services, registered, response, lastCall, constructed,
                   lastNotify, main>>

\* one WriteValue at a time, its statements interleaved with StartNotify / StopNotify
NextThreads ==
    \/ \E sc \in CharPositions, value \in Payloads :
           Len(writes) < MaxWrites /\ WriteEnter(sc, value)
    \/ WriteCheckEmpty
    \/ WriteMapLevel
    \/ WriteReadNotifying
    \/ WriteEmit
    \/ \E sc \in CharPositions : StartNotify(sc)
    \/ \E sc \in CharPositions : StopNotify(sc)

SpecThreads == Init /\ [][NextThreads]_vars

----------------------------------------------------------------------------
(* FindMeMain.main and find_adapter.  The body of main is modelled from the
   call of main() on; the names main uses (BLUEZ_SERVICE_NAME, ADAPTER_IFACE,
   ...) are taken to be bound to the values of constants.py.  The replies of
   the daemon to the two asynchronous Register* calls are delivered by the
   main loop, in any order, each as a success or as an error. *)

\* find_adapter that keeps the last match
RECURSIVE find_adapter_Last(_)
find_adapter_Last(objects) ==
    IF objects = <<>> THEN None
    ELSE IF find_adapter_Last(Tail(objects)) # None
    THEN find_adapter_Last(Tail(objects))
    ELSE IF ADAPTER_IFACE \in Head(objects).val THEN <<Head(objects).key>>
    ELSE None

\* find_adapter: the loop over objects.items(), then return None
RECURSIVE find_adapter(_)
find_adapter(objects) ==
    IF objects = <<>> THEN None
    ELSE IF ADAPTER_IFACE \in Head(objects).val THEN <<Head(objects).key>>
    ELSE find_adapter(Tail(objects))

\* print(text)
Printed(text) == Append(main.printed, text)

\* adapter_path = find_adapter(bus)
MainFindAdapter ==
    /\ main.pc = "find_adapter"
    /\ main' = [main EXCEPT !.pc = "check",
                            !.adapter_path = find_adapter(main.objects)]
    /\ UNCHANGED <<services, registered, emitted, response, writes, lastCall,
                   constructed, lastNotify, inflight>>

\* if not adapter_path: print(...); return
MainNoAdapter ==
    /\ main.pc = "check"
    /\ main.adapter_path = None
    /\ main' = [main EXCEPT !.pc = "returned",
                            !.printed = Printed(" No Bluetooth adapter found.")]
    /\ UNCHANGED <<services, registered, emitted, response, writes, lastCall,
                   constructed, lastNotify, inflight>>

\* adapter_props.Set(ADAPTER_IFACE, 'Powered', dbus.Boolean(1))
MainPowerOn ==
    /\ main.pc = "check"
    /\ main.adapter_path # None
    /\ main' = [main EXCEPT !.pc = "build", !.powered = main.adapter_path]
    /\ UNCHANGED <<services, registered, emitted, response, writes, lastCall,
                   constructed, lastNotify, inflight>>

\* app = Application(bus); ias_service = IASService(bus, 0);
\* app.add_service(ias_service)
MainBuild ==
    /\ main.pc = "build"
    /\ services' = Append(services, IASService(0))
    /\ registered' = registered \cup
           {ApplicationPATH, ServicePath(0), CharPath(ServicePath(0), 0)}
    /\ constructed' = constructed \cup
           {[path |-> ServicePath(0), index |-> 0],
            [path |-> CharPath(ServicePath(0), 0), index |-> 0]}
    /\ main' = [main EXCEPT !.pc = "register_app"]
    /\ UNCHANGED <<emitted, response, writes, lastCall, lastNotify, inflight>>

\* service_manager.RegisterApplication(app.get_path(), {}, reply_handler,
\* error_handler): the call is sent, the reply comes in the main loop
MainRegisterApplication ==
    /\ main.pc = "register_app"
    /\ main' = [main EXCEPT !.pc = "register_ad",
                            !.app = "pending",
                            !.appCalls = @ + 1]
    /\ UNCHANGED <<services, registered, emitted, response, writes, lastCall,
                   constructed, lastNotify, inflight>>

\* advertisement = Advertisement(bus); ad_manager.RegisterAdvertisement(...)
MainRegisterAdvertisement ==
    /\ main.pc = "register_ad"
    /\ registered' = registered \cup {AdvertisementPATH}
    /\ main' = [main EXCEPT !.pc = "run",
                            !.ad = "pending",
                            !.adCalls = @ + 1]
    /\ UNCHANGED <<services, emitted, response, writes, lastCall,
                   constructed, lastNotify, inflight>>

\* GLib.MainLoop().run()
MainRun ==
    /\ main.pc = "run"
    /\ main' = [main EXCEPT !.pc = "loop", !.loop = TRUE]
    /\ UNCHANGED <<services, registered, emitted, response, writes, lastCall,
                   constructed, lastNotify, inflight>>

\* RegisterApplication's reply_handler, run by the main loop
ApplicationReply ==
    /\ main.loop
    /\ main.app = "pending"
    /\ main' = [main EXCEPT !.app = "ok",
                            !.printed = Printed(" GATT application registered")]
    /\ UNCHANGED <<services, registered, emitted, response, writes, lastCall,
                   constructed, lastNotify, inflight>>

\* an error_handler that drops the error
ApplicationError_Swallowed(e) ==
    /\ main.loop
    /\ main.app = "pending"
    /\ main' = [main EXCEPT !.app = "failed"]
    /\ UNCHANGED <<services, registered, emitted, response, writes, lastCall,
                   constructed, lastNotify, inflight>>

\* RegisterApplication's error_handler, run by the main loop
ApplicationError(e) ==
    /\ main.loop
    /\ main.app = "pending"
    /\ main' = [main EXCEPT
           !.app = "failed",
           !.printed = Printed(" Failed to register GATT application: " \o e)]
    /\ UNCHANGED <<services, registered, emitted, response, writes, lastCall,
                   constructed, lastNotify, inflight>>

\* RegisterAdvertisement's reply_handler, run by the main loop
AdvertisementReply ==
    /\ main.loop
    /\ main.ad = "pending"
    /\ main' = [main EXCEPT !.ad = "ok",
                            !.printed = Printed(" BLE advertisement registered")]
    /\ UNCHANGED <<services, registered, emitted, response, writes, lastCall,
                   constructed, lastNotify, inflight>>

\* RegisterAdvertisement's error_handler, run by the main loop
AdvertisementError(e) ==
    /\ main.loop
    /\ main.ad = "pending"
    /\ main' = [main EXCEPT
           !.ad = "failed",
           !.printed = Printed(" Failed to register advertisement: " \o e)]
    /\ UNCHANGED <<services, registered, emitted, response, writes, lastCall,
                   constructed, lastNotify, inflight>>

\* except KeyboardInterrupt: print(...); main returns
MainKeyboardInterrupt ==
    /\ main.pc = "loop"
    /\ main' = [main EXCEPT !.pc = "stopped",
                            !.loop = FALSE,
                            !.printed = Printed("\nServer stopped by user")]
    /\ UNCHANGED <<services, registered, emitted, response, writes, lastCall,
                   constructed, lastNotify, inflight>>

\* the object paths and interface sets the daemon may report
BluezPaths == {"/org/bluez", "/org/bluez/hci0", "/org/bluez/hci1"}
BluezInterfaces == {{"org.freedesktop.DBus.Introspectable"},
                    {"org.freedesktop.DBus.Introspectable", ADAPTER_IFACE}}

\* the dicts manager.GetManagedObjects() may return: distinct paths, any order
BluezObjects ==
    {d \in UNION {[1 .. n -> [key : BluezPaths, val : BluezInterfaces]] :
                      n \in 0 .. MaxBluezObjects} :
        \A i, j \in 1 .. Len(d) : d[i].key = d[j].key => i = j}

\* the errors the daemon may reply with
DBusErrors == {"AlreadyExists", "NoReply"}

\* main() is called: nothing is constructed yet
InitMain ==
    /\ services = <<>>
    /\ registered = {}
    /\ emitted = <<>>
    /\ response = None
    /\ writes = <<>>
    /\ lastCall = NoCall
    /\ constructed = {}
    /\ lastNotify = {}
    /\ inflight = NoWrite
    /\ \E objects \in BluezObjects :
           main = [NotStarted EXCEPT !.pc = "find_adapter", !.objects = objects]

NextMain ==
    \/ MainFindAdapter
    \/ MainNoAdapter
    \/ MainPowerOn
    \/ MainBuild
    \/ MainRegisterApplication
    \/ MainRegisterAdvertisement
    \/ MainRun
    \/ ApplicationReply
    \/ \E e \in DBusErrors : ApplicationError(e)
    \/ AdvertisementReply
    \/ \E e \in DBusErrors : AdvertisementError(e)
    \/ MainKeyboardInterrupt
    \/ main.loop /\ GetManagedObjects

SpecMain == InitMain /\ [][NextMain]_vars

----------------------------------------------------------------------------
(* Vocabulary of the properties *)

\* the alert text the specification assigns to a level byte
ExpectedMessage(b) ==
    CASE b = 0 -> <<"N", "o", " ", "A", "l", "e", "r", "t">>
      [] b = 1 -> <<"M", "i", "l", "d", " ", "A", "l", "e", "r", "t">>
      [] b = 2 -> <<"H", "i", "g", "h", " ", "A", "l", "e", "r", "t">>
      [] b \in 3 .. 255 ->
            <<"U", "n", "k", "n", "o", "w", "n", " ", "A", "l", "e", "r", "t">>

Chars == {" ", "A", "H", "M", "N", "U", "d", "e", "g", "h", "i", "k", "l", "n",
          "o", "r", "t", "w"}

\* the text a byte sequence decodes to, byte for byte
Decode(bytes) ==
    [i \in 1 .. Len(bytes) |-> CHOOSE c \in Chars : ord(c) = bytes[i]]

\* the byte sequence under the key Value of a signal's changed properties
ValueOf(event) ==
    LET i == CHOOSE k \in 1 .. Len(event.changed) : event.changed[k].key = "Value"
    IN event.changed[i].val

\* the notifying flag of the characteristic exported at a path in a tree
NotifyingIn(svcs, path) ==
    \E s \in 1 .. Len(svcs) : \E c \in 1 .. Len(svcs[s].characteristics) :
        /\ svcs[s].characteristics[c].path = path
        /\ svcs[s].characteristics[c].notifying

\* the signals added to emitted by a step
NewEvents == SubSeq(emitted', Len(emitted) + 1, Len(emitted'))

\* a step is a WriteValue call; its history entry is LastWrite'
IsWrite == Len(writes') = Len(writes) + 1
LastWrite == writes[Len(writes)]

----------------------------------------------------------------------------
(* Properties *)

\* C1: under serial dispatch a PropertiesChanged signal is emitted only by a
\* characteristic whose notifying flag is true at that moment (before and
\* after the step), signals are only ever appended, and a WriteValue on a
\* characteristic that is not notifying emits no signal.
C1_EmitOnlyWhileNotifying ==
    [][/\ Len(emitted') >= Len(emitted)
       /\ SubSeq(emitted', 1, Len(emitted)) = emitted
       /\ \A i \in 1 .. Len(NewEvents) :
              /\ NotifyingIn(services, NewEvents[i].path)
              /\ NotifyingIn(services', NewEvents[i].path)
       /\ (IsWrite /\ ~NotifyingIn(services, LastWrite'.path))
              => emitted' = emitted]_vars

\* C1 witness: a write was dropped while not notifying and a signal was emitted
C1_Witness ==
    /\ Len(emitted) >= 1
    /\ \E i \in 1 .. Len(writes) : writes[i].attempted /\ ~writes[i].notifying

\* C2: every non-empty payload is mapped by its first byte alone: 0 to
\* "No Alert", 1 to "Mild Alert", 2 to "High Alert", 3..255 to "Unknown
\* Alert", and when a signal is emitted it carries that text.
C2_FirstByteMapping ==
    \A i \in 1 .. Len(writes) :
        writes[i].value # <<>> =>
            /\ writes[i].mapped
            /\ writes[i].msg = ExpectedMessage(writes[i].value[1])
            /\ (i = Len(writes) /\ writes[i].notifying) =>
                   /\ emitted # <<>>
                   /\ Decode(ValueOf(emitted[Len(emitted)])) =
                          ExpectedMessage(writes[i].value[1])

\* C2 witness: a two-byte payload whose second byte names another level
C2_Witness ==
    /\ Len(writes) = 1
    /\ writes[1].value = <<2, 1>>
    /\ writes[1].msg = <<"H", "i", "g", "h", " ", "A", "l", "e", "r", "t">>
    /\ Len(emitted) = 1

\* C3: a WriteValue with an empty payload, whether the characteristic is
\* notifying or not, maps no message, does not call send_notification, emits
\* no signal and leaves the tree (and so every notifying flag) unchanged.
C3_EmptyWriteIsNoOp ==
    [][(IsWrite /\ LastWrite'.value = <<>>) =>
           /\ ~LastWrite'.mapped
           /\ LastWrite'.msg = <<>>
           /\ ~LastWrite'.attempted
           /\ emitted' = emitted
           /\ services' = services]_vars

\* C3 witness: an empty write in state Idle and an empty write in state Active
C3_Witness ==
    \E i, j \in 1 .. Len(writes) :
        /\ writes[i].value = <<>> /\ ~writes[i].notifying
        /\ writes[j].value = <<>> /\ writes[j].notifying

\* C4: a WriteValue with a non-empty payload on a notifying characteristic
\* appends exactly one signal, emitted by that characteristic and carrying the
\* text of the written level, also when it repeats the previous signal.
C4_EveryWriteNotifies ==
    [][(/\ IsWrite
        /\ LastWrite'.value # <<>>
        /\ NotifyingIn(services, LastWrite'.path)) =>
           /\ Len(NewEvents) = 1
           /\ NewEvents[1].path = LastWrite'.path
           /\ Decode(ValueOf(NewEvents[1])) = ExpectedMessage(LastWrite'.value[1])]_vars

\* C4 witness: two writes in a row mapped to one text, each emitted
C4_Witness ==
    /\ Len(writes) >= 2
    /\ Len(emitted) >= 2
    /\ writes[Len(writes)].notifying
    /\ writes[Len(writes) - 1].notifying
    /\ writes[Len(writes)].value = writes[Len(writes) - 1].value
    /\ writes[Len(writes)].value # <<>>
    /\ emitted[Len(emitted)] = emitted[Len(emitted) - 1]

\* the texts of the non-empty writes done while notifying, in order
RECURSIVE ExpectedNotifications(_)
ExpectedNotifications(ws) ==
    IF ws = <<>> THEN <<>>
    ELSE (IF Head(ws).value # <<>> /\ Head(ws).notifying
          THEN <<ExpectedMessage(Head(ws).value[1])>>
          ELSE <<>>) \o ExpectedNotifications(Tail(ws))

\* C5: the emitted signals are, in order, the texts of exactly the non-empty
\* writes done while notifying was true; a write done while it was false is
\* dropped and no later StartNotify replays it.
C5_DroppedNotQueued ==
    [i \in 1 .. Len(emitted) |-> Decode(ValueOf(emitted[i]))]
        = ExpectedNotifications(writes)

\* C5 witness: StartNotify, WriteValue([1]), StopNotify, WriteValue([2]),
\* StartNotify: exactly one signal, "Mild Alert"
C5_Witness ==
    /\ Len(writes) = 2
    /\ writes[1].value = <<1>> /\ writes[1].notifying
    /\ writes[2].value = <<2>> /\ ~writes[2].notifying
    /\ lastCall.op = "StartNotify"
    /\ Len(emitted) = 1
    /\ Decode(ValueOf(emitted[1])) =
           <<"M", "i", "l", "d", " ", "A", "l", "e", "r", "t">>

\* the notifying flags of a tree, by position
Flags(svcs) ==
    [s \in 1 .. Len(svcs) |->
        [c \in 1 .. Len(svcs[s].characteristics) |->
            svcs[s].characteristics[c].notifying]]

\* C6: WriteValue changes no notifying flag, whatever the payload and the
\* state; a flag changes only in a StartNotify or StopNotify call; and
\* GetManagedObjects changes nothing of the tree, the bus or the signals.
C6_OnlyStartStopChangeNotifying ==
    [][/\ IsWrite => Flags(services') = Flags(services)
       /\ Flags(services') # Flags(services) =>
              lastCall'.op \in {"StartNotify", "StopNotify"}
       /\ lastCall'.op = "GetManagedObjects" =>
              /\ services' = services
              /\ registered' = registered
              /\ emitted' = emitted]_vars

\* C6 witness: writes, empty and not, done in both states, then GetManagedObjects
C6_Witness ==
    /\ lastCall.op = "GetManagedObjects"
    /\ \E i, j, k \in 1 .. Len(writes) :
           /\ writes[i].value = <<>>
           /\ writes[j].value # <<>> /\ writes[j].notifying
           /\ writes[k].value # <<>> /\ ~writes[k].notifying

\* C7: a StartNotify leaves notifying true and a StopNotify leaves it false,
\* and a StartNotify (StopNotify) that directly follows another one on the
\* same characteristic changes no flag and emits no signal.
C7_StartStopIdempotent ==
    /\ [](lastCall.op = "StartNotify" => NotifyingIn(services, lastCall.path))
    /\ [](lastCall.op = "StopNotify" => ~NotifyingIn(services, lastCall.path))
    /\ [][(lastCall'.op \in {"StartNotify", "StopNotify"} /\ lastCall'.again) =>
              /\ services' = services
              /\ emitted' = emitted]_vars

\* C7 witness: StartNotify called twice in a row
C7_Witness ==
    /\ lastCall.op = "StartNotify"
    /\ lastCall.again
    /\ NotifyingIn(services, lastCall.path)

\* C8: no WriteValue raises, whatever the payload (empty, or of any length
\* with any first byte 0..255) and the state, and the call returns no value.
C8_WriteNeverRaises ==
    /\ \A i \in 1 .. Len(writes) : ~writes[i].raised
    /\ lastCall.op = "WriteValue" => response = None

\* C8 witness: a write of an unrecognised level while notifying
C8_Witness ==
    /\ lastCall.op = "WriteValue"
    /\ writes[1].value = <<255, 255>>
    /\ writes[1].notifying
    /\ Len(emitted) = 1

\* C9: for an Application holding one service with its one characteristic,
\* GetManagedObjects returns exactly two entries: the service path with
\* {UUID, Primary, Characteristics: [characteristic path]} and then the
\* characteristic path with {UUID, Service: service path, Flags, Notifying},
\* the characteristic path being the service path followed by /char0.
C9_TwoManagedObjects ==
    (/\ lastCall.op = "GetManagedObjects"
     /\ Len(services) = 1
     /\ Len(services[1].characteristics) = 1) =>
        \E index \in Indices :
            LET sp == "/org/bluez/example/service" \o ToString(index)
                cp == sp \o "/char0"
            IN response =
                <<[key |-> sp,
                   val |-> <<[key |-> GATT_SERVICE_IFACE,
                              val |-> [UUID |-> IAS_UUID,
                                       Primary |-> TRUE,
                                       Characteristics |-> <<cp>>]]>>],
                  [key |-> cp,
                   val |-> <<[key |-> GATT_CHARACTERISTIC_IFACE,
                              val |-> [UUID |-> ALERT_LEVEL_UUID,
                                       Service |-> sp,
                                       Flags |-> <<"write-without-response",
                                                   "notify">>,
                                       Notifying |->
                                           NotifyingIn(services, cp)]]>>]>>

\* C9 witness: GetManagedObjects on the tree main builds, while notifying
C9_Witness ==
    /\ lastCall.op = "GetManagedObjects"
    /\ Len(services) = 1
    /\ Len(services[1].characteristics) = 1
    /\ services[1].path = "/org/bluez/example/service0"
    /\ services[1].characteristics[1].notifying
    /\ Len(response) = 2

\* C10 as stated: the service at position i has path .../service{i} and the
\* characteristic at position j of it has path servicePath/char{j}.
C10_PathIndexIsPosition ==
    \A s \in 1 .. Len(services) :
        /\ services[s].path = "/org/bluez/example/service" \o ToString(s - 1)
        /\ \A c \in 1 .. Len(services[s].characteristics) :
               services[s].characteristics[c].path =
                   services[s].path \o "/char" \o ToString(c - 1)

\* the index argument an object at a path was constructed with
IndexOf(path) == (CHOOSE o \in constructed : o.path = path).index

\* C10 amended: the index in the path of a service or characteristic is the
\* index argument of its constructor, and it is the position for the
\* characteristic a service creates for itself (char0 at position 0) and for
\* every object constructed with its position as index.
C10_PathIndexIsConstructorIndex ==
    \A s \in 1 .. Len(services) :
        LET svc == services[s]
        IN /\ \E o \in constructed : o.path = svc.path
           /\ svc.path = "/org/bluez/example/service" \o ToString(IndexOf(svc.path))
           /\ Len(svc.characteristics) >= 1
           /\ svc.characteristics[1].path = svc.path \o "/char0"
           /\ \A c \in 1 .. Len(svc.characteristics) :
                  LET ch == svc.characteristics[c]
                  IN /\ \E o \in constructed : o.path = ch.path
                     /\ ch.path = svc.path \o "/char" \o ToString(IndexOf(ch.path))
                     /\ ch.service = svc.path

\* C10 witness: a service and a characteristic whose index is not their position
C10_Witness ==
    /\ Len(services) = 2
    /\ services[1].path = "/org/bluez/example/service2"
    /\ services[2].path = "/org/bluez/example/service0"
    /\ Len(services[1].characteristics) = 2
    /\ services[1].characteristics[2].path = "/org/bluez/example/service2/char2"

\* C11: once a registration failure was reported, the main loop is not
\* running with fewer than both registrations succeeded.
C11_NoLoopHalfRegistered ==
    ~(/\ main.loop
      /\ main.app = "failed" \/ main.ad = "failed"
      /\ ~(main.app = "ok" /\ main.ad = "ok"))

\* the number of printed lines that belong to a set of texts
PrintCount(texts) ==
    Cardinality({i \in 1 .. Len(main.printed) : main.printed[i] \in texts})

ApplicationFailures ==
    {" Failed to register GATT application: " \o e : e \in DBusErrors}
AdvertisementFailures ==
    {" Failed to register advertisement: " \o e : e \in DBusErrors}

FirstAdapter(objects) ==
    LET hits == {i \in 1 .. Len(objects) : ADAPTER_IFACE \in objects[i].val}
    IN IF hits = {} THEN <<>>
       ELSE <<objects[CHOOSE i \in hits : \A j \in hits : i <= j].key>>

\* C13: find_adapter returns the first path whose interfaces include the
\* adapter interface, or None when there is none; when it returns None, main
\* prints the failure and returns: no adapter is powered, no registration
\* call is made, nothing is built and the event loop never runs.
C13_NoAdapterNoStartup ==
    /\ main.pc # "find_adapter" => main.adapter_path = FirstAdapter(main.objects)
    /\ (main.pc # "find_adapter" /\ FirstAdapter(main.objects) = <<>>) =>
           /\ main.pc \in {"check", "returned"}
           /\ main.powered = None
           /\ main.appCalls = 0 /\ main.adCalls = 0
           /\ main.app = "none" /\ main.ad = "none"
           /\ ~main.loop
           /\ services = <<>>
           /\ main.pc = "returned" =>
                  main.printed = <<" No Bluetooth adapter found.">>
    /\ main.pc = "check" => main.printed = <<>>
    /\ main.powered # None => main.powered = FirstAdapter(main.objects)

\* C13 witness: the daemon manages objects, none is an adapter, main returned
C13_Witness ==
    /\ main.pc = "returned"
    /\ Len(main.objects) = 2
    /\ main.adapter_path = None
    /\ main.printed = <<" No Bluetooth adapter found.">>

\* the paths of a tree, service by service, each followed by its characteristics
RECURSIVE DepthFirstPaths(_)
DepthFirstPaths(svcs) ==
    IF svcs = <<>> THEN <<>>
    ELSE <<Head(svcs).path>>
         \o [j \in 1 .. Len(Head(svcs).characteristics) |->
                Head(svcs).characteristics[j].path]
         \o DepthFirstPaths(Tail(svcs))

\* the number of characteristics of a tree
RECURSIVE CharCount(_)
CharCount(svcs) ==
    IF svcs = <<>> THEN 0
    ELSE Len(Head(svcs).characteristics) + CharCount(Tail(svcs))

\* C14: for a tree of n services (distinct objects) where service i holds k_i
\* characteristics, GetManagedObjects returns n + sum(k_i) entries with
\* distinct keys: service by service in stored order, each service's entry
\* followed by the entries of its characteristics in stored order.
C14_DepthFirstFlattening ==
    lastCall.op = "GetManagedObjects" =>
        /\ Len(response) = Len(services) + CharCount(services)
        /\ [i \in 1 .. Len(response) |-> response[i].key] = DepthFirstPaths(services)
        /\ \A i, j \in 1 .. Len(response) :
               response[i].key = response[j].key => i = j

\* C14 witness: two services, the first one with two characteristics
C14_Witness ==
    /\ lastCall.op = "GetManagedObjects"
    /\ Len(services) = 2
    /\ Len(services[1].characteristics) = 2
    /\ Len(services[2].characteristics) = 1
    /\ Len(response) = 5

\* the properties GetManagedObjects returned for a path
ReturnedFor(path) ==
    response[CHOOSE i \in 1 .. Len(response) : response[i].key = path].val[1].val

\* C15: right after any GetManagedObjects call, whatever add_service,
\* add_characteristic, StartNotify and StopNotify calls came before, the
\* Notifying value returned for each characteristic is its current flag and
\* the Characteristics list returned for each service is the list of the
\* paths of its current characteristics, in order.
C15_ComputedAtCallTime ==
    lastCall.op = "GetManagedObjects" =>
        \A s \in 1 .. Len(services) :
            /\ \E i \in 1 .. Len(response) : response[i].key = services[s].path
            /\ ReturnedFor(services[s].path).Characteristics =
                   [j \in 1 .. Len(services[s].characteristics) |->
                       services[s].characteristics[j].path]
            /\ \A c \in 1 .. Len(services[s].characteristics) :
                   LET char == services[s].characteristics[c]
                   IN /\ \E i \in 1 .. Len(response) : response[i].key = char.path
                      /\ ReturnedFor(char.path).Notifying = char.notifying
                      /\ ReturnedFor(char.path).Service = services[s].path

\* C15 witness: a call after a characteristic was added and notify states
\* were switched on and off again
C15_Witness ==
    /\ lastCall.op = "GetManagedObjects"
    /\ Len(services) >= 1
    /\ Len(services[1].characteristics) = 2
    /\ ~services[1].characteristics[1].notifying
    /\ services[1].characteristics[2].notifying
    /\ \E c \in lastNotify :
           c.path = services[1].characteristics[1].path /\ c.op = "StopNotify"

\* C16: every emitted signal is a PropertiesChanged for the characteristic
\* interface with exactly one changed property, Value, whose bytes are one
\* per character of the message of its write and decode back to that message,
\* and with an empty list of invalidated properties.
C16_SignalShape ==
    /\ Len(emitted) = Len(ExpectedNotifications(writes))
    /\ \A k \in 1 .. Len(emitted) :
           LET msg == ExpectedNotifications(writes)[k]
           IN /\ emitted[k].signal = "PropertiesChanged"
              /\ emitted[k].interface = GATT_CHARACTERISTIC_IFACE
              /\ Len(emitted[k].changed) = 1
              /\ emitted[k].changed[1].key = "Value"
              /\ Len(emitted[k].changed[1].val) = Len(msg)
              /\ \A i \in 1 .. Len(msg) :
                     /\ emitted[k].changed[1].val[i] \in 0 .. 255
                     /\ emitted[k].changed[1].val[i] = ord(msg[i])
              /\ Decode(emitted[k].changed[1].val) = msg
              /\ emitted[k].invalidated = <<>>

\* C16 witness: a signal carrying the 13 bytes of "Unknown Alert"
C16_Witness ==
    /\ Len(emitted) >= 1
    /\ emitted[1].changed[1].val =
           <<85, 110, 107, 110, 111, 119, 110, 32, 65, 108, 101, 114, 116>>

\* C17: under statement-level interleaving a WriteValue call reads notifying
\* exactly once when its payload is not empty (never when it is empty), the
\* read comes after the level was mapped and yields the flag of that moment,
\* and the call emits one signal, carrying the mapped text, exactly when the
\* value read was true, whatever StartNotify / StopNotify run before or after.
C17_SingleSnapshot ==
    /\ [](inflight.pc = "done" =>
            /\ inflight.value = <<>> =>
                   inflight.reads = 0 /\ inflight.emits = 0 /\ ~inflight.mapped
            /\ inflight.value # <<>> =>
                   /\ inflight.reads = 1
                   /\ inflight.mapped
                   /\ inflight.msg = ExpectedMessage(inflight.value[1])
                   /\ inflight.emits = (IF inflight.snapshot THEN 1 ELSE 0))
    /\ [][inflight'.reads > inflight.reads =>
            /\ inflight.reads = 0 /\ inflight'.reads = 1
            /\ inflight.mapped
            /\ inflight'.snapshot = NotifyingIn(services, CharAt(inflight.pos).path)]_vars
    /\ [][emitted' # emitted =>
            /\ inflight.snapshot /\ inflight.reads = 1
            /\ Len(emitted') = Len(emitted) + 1
            /\ SubSeq(emitted', 1, Len(emitted)) = emitted
            /\ Decode(ValueOf(emitted'[Len(emitted')])) =
                   ExpectedMessage(inflight.value[1])]_vars

\* C17 witness: the flag was true at the read, StopNotify ran before the
\* signal was emitted, and the signal was emitted all the same
C17_Witness ==
    /\ inflight.pc = "done"
    /\ inflight.snapshot
    /\ inflight.reads = 1
    /\ inflight.emits = 1
    /\ ~inflight.atEmit

\* C18: the notify state of a characteristic is Idle (notifying false) or
\* Active (notifying true); it is Idle at the start, and after any sequence of
\* operations it is Active exactly when a StartNotify or StopNotify call was
\* made on the characteristic and the most recent of them was StartNotify.
C18_ActiveIffLastCallIsStart ==
    /\ \A c, e \in lastNotify : c.path = e.path => c = e
    /\ \A sc \in CharPositions :
           /\ CharAt(sc).notifying \in BOOLEAN
           /\ CharAt(sc).notifying <=>
                  \E c \in lastNotify :
                      c.path = CharAt(sc).path /\ c.op = "StartNotify"
           /\ ~CharAt(sc).notifying <=>
                  \/ ~\E c \in lastNotify : c.path = CharAt(sc).path
                  \/ \E c \in lastNotify :
                         c.path = CharAt(sc).path /\ c.op = "StopNotify"

\* C18 witness: Idle again after having been Active (a signal was emitted)
C18_Witness ==
    /\ Len(emitted) >= 1
    /\ \E sc \in CharPositions :
           /\ ~CharAt(sc).notifying
           /\ [path |-> CharAt(sc).path, op |-> "StopNotify"] \in lastNotify

====
